---- MODULE Spec2Model ----
(***************************************************************************)
(* Intrinsics PDF Exporter: the whitespace normalizer of                   *)
(* scripts/html-normalizer.js and the colour/contrast normalizer of        *)
(* scripts/style-processor.js, as state machines over a DOM tree.          *)
(*                                                                         *)
(* The DOM tree is a sequence of nodes numbered in document order          *)
(* (preorder): node 1 is the element handed to the normalizer, and         *)
(* parentNode[i] < i for every other node.  A TreeWalker rooted at node 1  *)
(* therefore visits 2, 3, ... in index order and never node 1 itself.      *)
(*                                                                         *)
(* The export handlers of scripts/main.js, scripts/pdf-generator.js and    *)
(* the HTML exporter follow, as state machines over the same tree and the  *)
(* export flag, the attached render containers and the image sources.      *)
(***************************************************************************)
EXTENDS Integers, Sequences, FiniteSets, TLC

VARIABLES
  nodeType,        \* node -> "ELEMENT_NODE" | "TEXT_NODE" | "COMMENT_NODE"
  parentNode,      \* node -> its parent node, 0 for node 1
  tagName,         \* element -> its tag name as the DOM reports it (upper case)
  textContent,     \* text node -> its character data, a sequence of characters
  style,           \* element -> declared color, backgroundColor, visibility, opacity
  pc,              \* "build" while the caller builds the tree, then the
                   \* position of the running normalizer
  passes,          \* number of completed normalizer passes over the tree
  textBefore,      \* textContent as it was when the latest normalizeWhitespace started
  textBuilt,       \* textContent as the caller built it
  styleBefore,     \* style as it was when the latest processStylesForPDF started
  styleBuilt,      \* style as the caller built it
  elementsToInvert,\* the list the latest invertColorsForPDF collected
  forcedBlack,     \* the elements whose color the latest fixContrastIssues wrote
  call,            \* the latest call of a helper function: its name, its
                   \* arguments and the value it returned
  exportInProgress,\* main.js: the flag handleExportClick sets around an export
  pendingExports,  \* number of exportJournalToPDF calls that have not settled
  journal,         \* the pages of the journal entry under export
  pageIndex,       \* number of pages of the journal processed so far
  renderContainers,\* number of 'pdf-render-container' elements attached to
                   \* document.body
  notification,    \* the latest ui.notifications call: its type and message
  clicks,          \* number of export-button clicks received
  images,          \* page -> the src attribute of each img element of its content
  imageIndex,      \* number of img elements of the current page processed so far
  fetched          \* the URLs handed to fetch(), in order

\* the state of the export handlers
exportVars == <<exportInProgress, pendingExports, journal, pageIndex,
                renderContainers, notification, clicks, images, imageIndex,
                fetched>>

vars == <<nodeType, parentNode, tagName, textContent, style, pc, passes,
          textBefore, textBuilt, styleBefore, styleBuilt, elementsToInvert,
          forcedBlack, call, exportVars>>

----------------------------------------------------------------------------
(* Bounds of the model *)

\* nodes of a tree handed to normalizeWhitespace, the root element included
MaxNodes == 5
\* elements of a tree handed to processStylesForPDF, the root element included
MaxElements == 4
\* normalizer passes run over one tree
MaxPasses == 2

----------------------------------------------------------------------------
(* DOM tree *)

Nodes == 1..Len(nodeType)

\* the characters /\s/ and String.prototype.trim() treat as whitespace
WhitespaceChars == {" ", "\t", "\n", "\r", "\f"}

SampleTags == {"SPAN", "DIV"}

\* tagName.toLowerCase()
ToLowerCase(t) ==
  CASE t = "SPAN" -> "span"
    [] t = "EM"   -> "em"
    [] t = "DIV"  -> "div"
    [] t = "P"    -> "p"
    [] t = "H1"   -> "h1"
    [] OTHER      -> t

\* character data of the text nodes the caller builds: empty, blank, and
\* non-blank with each combination of a whitespace first and last character
SampleTexts ==
  {<<>>, <<" ">>, <<"x">>, <<" ", "x">>, <<"x", "\t">>, <<" ", "x", " ">>}

----------------------------------------------------------------------------
(* CSS values.  A colour string is kept as its functional notation: "rgb" or  *)
(* "rgba" with the numbers between the parentheses (alpha in hundredths),     *)
(* "#" with the hex digits that follow it, or a keyword with no arguments.    *)

Unset == [fn |-> "", args |-> <<>>]
Rgb(r, g, b) == [fn |-> "rgb", args |-> <<r, g, b>>]
Rgba(r, g, b, a) == [fn |-> "rgba", args |-> <<r, g, b, a>>]
Hex(digits) == [fn |-> "#", args |-> digits]
Keyword(name) == [fn |-> name, args |-> <<>>]

\* 'rgba(0, 0, 0, 0)', the computed value of a transparent colour
TransparentRgba == Rgba(0, 0, 0, 0)

\* the value the style engine keeps for an assignment element.style.x = value:
\* hex notation is stored as rgb()
Specified(value) ==
  IF value.fn = "#" /\ Len(value.args) = 6
  THEN Rgb(16 * value.args[1] + value.args[2], 16 * value.args[3] + value.args[4],
           16 * value.args[5] + value.args[6])
  ELSE IF value.fn = "#" /\ Len(value.args) = 3
  THEN Rgb(17 * value.args[1], 17 * value.args[2], 17 * value.args[3])
  ELSE value

\* the computed value of a specified colour: keywords resolve to rgb()/rgba()
Computed(value) ==
  CASE value.fn = "transparent" -> TransparentRgba
    [] value.fn = "black"       -> Rgb(0, 0, 0)
    [] value.fn = "white"       -> Rgb(255, 255, 255)
    [] value.fn = "yellow"      -> Rgb(255, 255, 0)
    [] OTHER                    -> Specified(value)

\* no helper has been called yet
NoCall == [fn |-> "", args |-> <<>>, result |-> <<>>]

\* no ui.notifications call has been made yet
NoNotification == [type |-> "", message |-> ""]

\* no export button has been clicked and no export is running
NoExport ==
  /\ exportInProgress = FALSE
  /\ pendingExports = 0
  /\ journal = <<>>
  /\ pageIndex = 0
  /\ renderContainers = 0
  /\ notification = NoNotification
  /\ clicks = 0
  /\ images = <<>>
  /\ imageIndex = 0
  /\ fetched = <<>>

\* style of an element that declares nothing
NoStyle ==
  [color |-> Unset, backgroundColor |-> Unset, visibility |-> "", opacity |-> ""]

RECURSIVE AncestorsOrSelf(_, _)
AncestorsOrSelf(parents, i) ==
  IF i = 0 THEN {} ELSE {i} \cup AncestorsOrSelf(parents, parents[i])

\* the elements a node appended in document order can be a child of: those on
\* the path from the last node up to node 1
OpenElements ==
  {p \in AncestorsOrSelf(parentNode, Len(nodeType)) : nodeType[p] = "ELEMENT_NODE"}

\* node.previousSibling / node.nextSibling; 0 stands for null
previousSibling(node) ==
  LET sibs == {m \in Nodes : m < node /\ parentNode[m] = parentNode[node]}
  IN IF sibs = {} THEN 0 ELSE CHOOSE m \in sibs : \A k \in sibs : k <= m

nextSibling(node) ==
  LET sibs == {m \in Nodes : m > node /\ parentNode[m] = parentNode[node]}
  IN IF sibs = {} THEN 0 ELSE CHOOSE m \in sibs : \A k \in sibs : m <= k

----------------------------------------------------------------------------
(* scripts/html-normalizer.js *)

\* text.match(/^\s/)
StartsWithWhitespace(text) == text # <<>> /\ text[1] \in WhitespaceChars

\* text.match(/\s$/)
EndsWithWhitespace(text) == text # <<>> /\ text[Len(text)] \in WhitespaceChars

\* a skip test that lets every leaf through
IsBlank_Never(text) == FALSE

\* !node.textContent || node.textContent.trim() === ''
IsBlank(text) == \A k \in 1..Len(text) : text[k] \in WhitespaceChars

blockElements ==
  {"div", "p", "h1", "h2", "h3", "h4", "h5", "h6", "ul", "ol", "li",
   "blockquote", "pre", "hr", "table", "tr", "td", "th"}

\* a leading-space test without the block-element exception
needsLeadingSpace_NoBlockList(node) ==
  LET prev == previousSibling(node)
  IN IF prev = 0 THEN FALSE
     ELSE IF nodeType[prev] = "ELEMENT_NODE" THEN TRUE
     ELSE IF nodeType[prev] = "TEXT_NODE"
          THEN ~EndsWithWhitespace(textContent[prev])
     ELSE FALSE

needsLeadingSpace(node) ==
  LET prev == previousSibling(node)
  IN IF prev = 0 THEN FALSE
     ELSE IF nodeType[prev] = "ELEMENT_NODE"
          THEN IF ToLowerCase(tagName[prev]) \in blockElements THEN FALSE ELSE TRUE
     ELSE IF nodeType[prev] = "TEXT_NODE"
          THEN ~EndsWithWhitespace(textContent[prev])
     ELSE FALSE

\* a trailing-space test that looks at the wrong edge of a text sibling
needsTrailingSpace_WrongEdge(node) ==
  LET next == nextSibling(node)
  IN IF next = 0 THEN FALSE
     ELSE IF nodeType[next] = "ELEMENT_NODE"
          THEN IF ToLowerCase(tagName[next]) \in blockElements THEN FALSE ELSE TRUE
     ELSE IF nodeType[next] = "TEXT_NODE"
          THEN ~EndsWithWhitespace(textContent[next])
     ELSE FALSE

needsTrailingSpace(node) ==
  LET next == nextSibling(node)
  IN IF next = 0 THEN FALSE
     ELSE IF nodeType[next] = "ELEMENT_NODE"
          THEN IF ToLowerCase(tagName[next]) \in blockElements THEN FALSE ELSE TRUE
     ELSE IF nodeType[next] = "TEXT_NODE"
          THEN ~StartsWithWhitespace(textContent[next])
     ELSE FALSE

\* the first loop of normalizeWhitespace: the walker's text nodes from node i
\* on, in document order, each pushing its 'leading' and 'trailing' entries
RECURSIVE nodesToFix(_)
nodesToFix(i) ==
  IF i > Len(nodeType) THEN <<>>
  ELSE LET entries ==
             IF nodeType[i] # "TEXT_NODE" \/ IsBlank(textContent[i]) THEN <<>>
             ELSE (IF needsLeadingSpace(i)
                   THEN <<[node |-> i, position |-> "leading"]>> ELSE <<>>)
                  \o (IF needsTrailingSpace(i)
                      THEN <<[node |-> i, position |-> "trailing"]>> ELSE <<>>)
       IN entries \o nodesToFix(i + 1)

\* a callback that does not look at the leaf's own edge before writing
ApplyFix_NoEdgeCheck(content, fix) ==
  LET text == content[fix.node]
  IN IF fix.position = "leading"
     THEN [content EXCEPT ![fix.node] = <<" ">> \o text]
     ELSE [content EXCEPT ![fix.node] = Append(text, " ")]

\* a callback whose trailing branch tests the leading edge
ApplyFix_TrailingTestsStart(content, fix) ==
  LET text == content[fix.node]
  IN IF fix.position = "leading" /\ ~StartsWithWhitespace(text)
     THEN [content EXCEPT ![fix.node] = <<" ">> \o text]
     ELSE IF fix.position = "trailing" /\ ~StartsWithWhitespace(text)
     THEN [content EXCEPT ![fix.node] = Append(text, " ")]
     ELSE content

\* one callback of nodesToFix.forEach
ApplyFix(content, fix) ==
  LET text == content[fix.node]
  IN IF fix.position = "leading" /\ ~StartsWithWhitespace(text)
     THEN [content EXCEPT ![fix.node] = <<" ">> \o text]
     ELSE IF fix.position = "trailing" /\ ~EndsWithWhitespace(text)
     THEN [content EXCEPT ![fix.node] = Append(text, " ")]
     ELSE content

RECURSIVE ApplyFixes(_, _)
ApplyFixes(content, fixes) ==
  IF fixes = <<>> THEN content
  ELSE ApplyFixes(ApplyFix(content, Head(fixes)), Tail(fixes))

\* normalizeWhitespace(element), element being node 1
normalizeWhitespace ==
  /\ pc \in {"build", "whitespace"}
  /\ passes < MaxPasses
  /\ textContent' = ApplyFixes(textContent, nodesToFix(2))
  /\ textBefore' = textContent
  /\ pc' = "whitespace"
  /\ passes' = passes + 1
  /\ UNCHANGED <<nodeType, parentNode, tagName, style, textBuilt, styleBefore,
                 styleBuilt, elementsToInvert, forcedBlack, call, exportVars>>

\* the caller's tree construction (content.innerHTML = page.text.content, or any
\* other DOM building): one more node, appended in document order
appendChild ==
  /\ pc = "build"
  /\ Len(nodeType) < MaxNodes
  /\ \E p \in OpenElements :
       /\ parentNode' = Append(parentNode, p)
       /\ \/ \E tag \in SampleTags :
               /\ nodeType' = Append(nodeType, "ELEMENT_NODE")
               /\ tagName' = Append(tagName, tag)
               /\ textContent' = Append(textContent, <<>>)
          \/ \E text \in SampleTexts :
               /\ nodeType' = Append(nodeType, "TEXT_NODE")
               /\ tagName' = Append(tagName, "")
               /\ textContent' = Append(textContent, text)
          \/ /\ nodeType' = Append(nodeType, "COMMENT_NODE")
             /\ tagName' = Append(tagName, "")
             /\ textContent' = Append(textContent, <<>>)
  /\ style' = Append(style, NoStyle)
  /\ textBefore' = textContent'
  /\ textBuilt' = textContent'
  /\ styleBefore' = style'
  /\ styleBuilt' = style'
  /\ UNCHANGED <<pc, passes, elementsToInvert, forcedBlack, call, exportVars>>

InitWhitespace ==
  /\ nodeType = <<"ELEMENT_NODE">>
  /\ parentNode = <<0>>
  /\ tagName = <<"DIV">>
  /\ textContent = << <<>> >>
  /\ style = <<NoStyle>>
  /\ pc = "build"
  /\ passes = 0
  /\ textBefore = << <<>> >>
  /\ textBuilt = << <<>> >>
  /\ styleBefore = <<NoStyle>>
  /\ styleBuilt = <<NoStyle>>
  /\ elementsToInvert = <<>>
  /\ forcedBlack = {}
  /\ call = NoCall
  /\ NoExport

NextWhitespace == appendChild \/ normalizeWhitespace

SpecWhitespace == InitWhitespace /\ [][NextWhitespace]_vars

----------------------------------------------------------------------------
(* window.getComputedStyle over the declared styles st *)

\* color is inherited; node 1 has no parent element and falls back to the
\* initial value
RECURSIVE computedColor(_, _)
computedColor(st, e) ==
  IF st[e].color # Unset THEN Computed(st[e].color)
  ELSE IF parentNode[e] = 0 THEN Rgb(0, 0, 0)
  ELSE computedColor(st, parentNode[e])

\* visibility is inherited
RECURSIVE computedVisibility(_, _)
computedVisibility(st, e) ==
  IF st[e].visibility # "" THEN st[e].visibility
  ELSE IF parentNode[e] = 0 THEN "visible"
  ELSE computedVisibility(st, parentNode[e])

\* background-color and opacity are not inherited
getComputedStyle(st, e) ==
  [color           |-> computedColor(st, e),
   backgroundColor |-> IF st[e].backgroundColor # Unset
                       THEN Computed(st[e].backgroundColor) ELSE TransparentRgba,
   visibility      |-> computedVisibility(st, e),
   opacity         |-> IF st[e].opacity # "" THEN st[e].opacity ELSE "1"]

----------------------------------------------------------------------------
(* scripts/style-processor.js *)

\* parseInt of a missing or empty hex pair
NaN == -1

\* parseInt(hex.substr(k - 1, 2), 16) for the digits from position k on
HexPair(hex, k) ==
  IF Len(hex) < k THEN NaN
  ELSE IF Len(hex) = k THEN hex[k]
  ELSE 16 * hex[k] + hex[k + 1]

\* a parser that reaches the transparent test before the rgb()/rgba() pattern
parseColor_TransparentFirst(color) ==
  IF color = TransparentRgba THEN <<255, 255, 255>>
  ELSE IF color.fn \in {"rgb", "rgba"}
  THEN <<color.args[1], color.args[2], color.args[3]>>
  ELSE <<255, 255, 255>>

RECURSIVE parseColor(_)
parseColor(color) ==
  IF color.fn \in {"rgb", "rgba"} /\ Len(color.args) >= 3
  THEN <<color.args[1], color.args[2], color.args[3]>>
  ELSE IF color.fn = "#"
  THEN IF Len(color.args) = 3
       THEN <<17 * color.args[1], 17 * color.args[2], 17 * color.args[3]>>
       ELSE <<HexPair(color.args, 1), HexPair(color.args, 3), HexPair(color.args, 5)>>
  ELSE IF color.fn = "transparent"
  THEN <<255, 255, 255>>
  \* a temporary element's computed color
  ELSE parseColor(Computed(color))

\* 10000 * (v / 255 <= 0.03928 ? v / 255 / 12.92 : ((v / 255 + 0.055) / 1.055) ^ 2.4),
\* rounded, for v = 0 .. 255
Linearized ==
<<
   0, 3, 6, 9, 12, 15, 18, 21, 24, 27, 30, 33,
   37, 40, 44, 48, 52, 56, 60, 65, 70, 75, 80, 86,
   91, 97, 103, 110, 116, 123, 130, 137, 144, 152, 160, 168,
   176, 185, 194, 203, 212, 222, 232, 242, 252, 262, 273, 284,
   296, 307, 319, 331, 343, 356, 369, 382, 395, 409, 423, 437,
   452, 467, 482, 497, 513, 529, 545, 561, 578, 595, 612, 630,
   648, 666, 685, 704, 723, 742, 762, 782, 802, 823, 844, 865,
   887, 908, 931, 953, 976, 999, 1022, 1046, 1070, 1095, 1119, 1144,
   1170, 1195, 1221, 1248, 1274, 1301, 1329, 1356, 1384, 1413, 1441, 1470,
   1500, 1529, 1559, 1590, 1620, 1651, 1683, 1714, 1746, 1779, 1812, 1845,
   1878, 1912, 1946, 1981, 2016, 2051, 2086, 2122, 2159, 2195, 2232, 2270,
   2307, 2346, 2384, 2423, 2462, 2502, 2542, 2582, 2623, 2664, 2705, 2747,
   2789, 2831, 2874, 2918, 2961, 3005, 3050, 3095, 3140, 3185, 3231, 3278,
   3325, 3372, 3419, 3467, 3515, 3564, 3613, 3663, 3712, 3763, 3813, 3864,
   3916, 3968, 4020, 4072, 4125, 4179, 4233, 4287, 4342, 4397, 4452, 4508,
   4564, 4621, 4678, 4735, 4793, 4851, 4910, 4969, 5029, 5089, 5149, 5210,
   5271, 5333, 5395, 5457, 5520, 5583, 5647, 5711, 5776, 5841, 5906, 5972,
   6038, 6105, 6172, 6240, 6308, 6376, 6445, 6514, 6584, 6654, 6724, 6795,
   6867, 6939, 7011, 7084, 7157, 7231, 7305, 7379, 7454, 7529, 7605, 7682,
   7758, 7835, 7913, 7991, 8070, 8148, 8228, 8308, 8388, 8469, 8550, 8632,
   8714, 8796, 8879, 8963, 9047, 9131, 9216, 9301, 9387, 9473, 9560, 9647,
   9734, 9823, 9911, 10000
>>

\* a luminance whose blue weight is 0.722
calculateLuminance_HeavyBlue(rgb) ==
  2126 * Linearized[rgb[1] + 1] + 7152 * Linearized[rgb[2] + 1]
    + 7220 * Linearized[rgb[3] + 1]

\* luminance in units of 10^-8: the weights are 0.2126, 0.7152 and 0.0722
calculateLuminance(rgb) ==
  2126 * Linearized[rgb[1] + 1] + 7152 * Linearized[rgb[2] + 1]
    + 722 * Linearized[rgb[3] + 1]

Max2(a, b) == IF a >= b THEN a ELSE b
Min2(a, b) == IF a <= b THEN a ELSE b

\* 0.05 in the units of calculateLuminance
FlareOffset == 5000000

\* a ratio of the arguments in the order given
calculateContrastRatio_Ordered(lum1, lum2) ==
  <<lum1 + FlareOffset, lum2 + FlareOffset>>

\* the ratio (lighter + 0.05) / (darker + 0.05) as <<numerator, denominator>>
calculateContrastRatio(lum1, lum2) ==
  <<Max2(lum1, lum2) + FlareOffset, Min2(lum1, lum2) + FlareOffset>>

\* CONFIG.COLOR_THRESHOLDS.lightThreshold = 0.5, in the units of calculateLuminance
lightThreshold == 50000000

\* CONFIG.COLOR_THRESHOLDS.contrastRatio = 4.5 = 9 / 2
contrastRatioTimes2 == 9

\* contrast < CONFIG.COLOR_THRESHOLDS.contrastRatio
BelowContrastRatio(contrast) == 2 * contrast[1] < contrastRatioTimes2 * contrast[2]

\* a classifier that also flags equal luminances
isLightOnDark_NotStrict(textColor, backgroundColor) ==
  calculateLuminance(parseColor(textColor))
    >= calculateLuminance(parseColor(backgroundColor))

isLightOnDark(textColor, backgroundColor) ==
  LET textLuminance == calculateLuminance(parseColor(textColor))
      bgLuminance == calculateLuminance(parseColor(backgroundColor))
  IN textLuminance > bgLuminance

\* the inversion the README shows: every flagged colour becomes black
invertColor_AlwaysBlack(color) == Hex(<<0, 0, 0, 0, 0, 0>>)

invertColor(color) ==
  LET luminance == calculateLuminance(parseColor(color))
  IN IF luminance > lightThreshold THEN Hex(<<0, 0, 0, 0, 0, 0>>) ELSE color

\* bgColor && bgColor !== 'transparent' && bgColor !== 'rgba(0, 0, 0, 0)'
IsNonTransparent(bgColor) ==
  bgColor # Unset /\ bgColor # Keyword("transparent") /\ bgColor # TransparentRgba

maxDepth == 10

\* a walk that also examines the node at depth maxDepth
RECURSIVE BackgroundWalk_Inclusive(_, _, _)
BackgroundWalk_Inclusive(st, current, depth) ==
  IF current # 0 /\ depth <= maxDepth
  THEN LET bgColor == getComputedStyle(st, current).backgroundColor
       IN IF IsNonTransparent(bgColor) THEN bgColor
          ELSE BackgroundWalk_Inclusive(st, parentNode[current], depth + 1)
  ELSE Hex(<<15, 15, 15, 15, 15, 15>>)

RECURSIVE BackgroundWalk(_, _, _)
BackgroundWalk(st, current, depth) ==
  IF current # 0 /\ depth < maxDepth
  THEN LET bgColor == getComputedStyle(st, current).backgroundColor
       IN IF IsNonTransparent(bgColor) THEN bgColor
          ELSE BackgroundWalk(st, parentNode[current], depth + 1)
  ELSE Hex(<<15, 15, 15, 15, 15, 15>>)

getEffectiveBackgroundColor(st, element) == BackgroundWalk(st, element, 0)

\* a collecting loop that keeps only the elements whose colour will change
RECURSIVE CollectElementsToInvert_OnlyLight(_, _)
CollectElementsToInvert_OnlyLight(st, i) ==
  IF i > Len(nodeType) THEN <<>>
  ELSE LET computed == getComputedStyle(st, i)
           textColor == computed.color
           bgColor == getEffectiveBackgroundColor(st, i)
           entry ==
             IF /\ nodeType[i] = "ELEMENT_NODE" /\ isLightOnDark(textColor, bgColor)
                /\ calculateLuminance(parseColor(textColor)) > lightThreshold
             THEN <<[element |-> i, originalColor |-> textColor,
                     originalBackground |-> computed.backgroundColor]>>
             ELSE <<>>
       IN entry \o CollectElementsToInvert_OnlyLight(st, i + 1)

\* the first loop of invertColorsForPDF: the walker's elements from node i on
RECURSIVE CollectElementsToInvert(_, _)
CollectElementsToInvert(st, i) ==
  IF i > Len(nodeType) THEN <<>>
  ELSE LET computed == getComputedStyle(st, i)
           textColor == computed.color
           bgColor == getEffectiveBackgroundColor(st, i)
           entry ==
             IF nodeType[i] = "ELEMENT_NODE" /\ isLightOnDark(textColor, bgColor)
             THEN <<[element |-> i, originalColor |-> textColor,
                     originalBackground |-> computed.backgroundColor]>>
             ELSE <<>>
       IN entry \o CollectElementsToInvert(st, i + 1)

\* a callback that clears the background whatever its luminance
InvertOne_ClearsAnyBackground(st, entry) ==
  [st EXCEPT ![entry.element].color = Specified(invertColor(entry.originalColor)),
             ![entry.element].backgroundColor = Keyword("transparent")]

\* a callback that also hides the dark background's box with a fifth property
InvertOne_WritesDisplay(st, entry) ==
  LET st1 == [st EXCEPT ![entry.element].color =
                          Specified(invertColor(entry.originalColor))]
      bgColor == getComputedStyle(st1, entry.element).backgroundColor
  IN IF IsNonTransparent(bgColor)
        /\ calculateLuminance(parseColor(bgColor)) < lightThreshold
     THEN [st1 EXCEPT ![entry.element] =
             [p \in DOMAIN @ \cup {"display"} |->
                IF p = "display" THEN "contents"
                ELSE IF p = "backgroundColor" THEN Keyword("transparent")
                ELSE @[p]]]
     ELSE st1

\* one callback of elementsToInvert.forEach
InvertOne(st, entry) ==
  LET st1 == [st EXCEPT ![entry.element].color =
                          Specified(invertColor(entry.originalColor))]
      bgColor == getComputedStyle(st1, entry.element).backgroundColor
  IN IF IsNonTransparent(bgColor)
        /\ calculateLuminance(parseColor(bgColor)) < lightThreshold
     THEN [st1 EXCEPT ![entry.element].backgroundColor = Keyword("transparent")]
     ELSE st1

RECURSIVE InvertAll(_, _)
InvertAll(st, entries) ==
  IF entries = <<>> THEN st
  ELSE InvertAll(InvertOne(st, Head(entries)), Tail(entries))

\* invertColorsForPDF(element), element being node 1; the first call of
\* processStylesForPDF
invertColorsForPDF ==
  /\ pc \in {"build", "processed"}
  /\ passes < MaxPasses
  /\ LET entries == CollectElementsToInvert(style, 2)
     IN /\ elementsToInvert' = entries
        /\ style' = InvertAll(style, entries)
  /\ styleBefore' = style
  /\ forcedBlack' = {}
  /\ pc' = "inverted"
  /\ UNCHANGED <<nodeType, parentNode, tagName, textContent, passes, textBefore,
                 textBuilt, styleBuilt, call, exportVars>>

\* the loop of ensureTextVisibility from node i on
RECURSIVE MakeVisibleFrom(_, _)
MakeVisibleFrom(st, i) ==
  IF i > Len(nodeType) THEN st
  ELSE IF nodeType[i] # "ELEMENT_NODE" THEN MakeVisibleFrom(st, i + 1)
  ELSE LET computed == getComputedStyle(st, i)
           st1 == IF computed.visibility = "hidden"
                  THEN [st EXCEPT ![i].visibility = "visible"] ELSE st
           st2 == IF computed.opacity = "0"
                  THEN [st1 EXCEPT ![i].opacity = "1"] ELSE st1
       IN MakeVisibleFrom(st2, i + 1)

\* ensureTextVisibility(element), the second call of processStylesForPDF
ensureTextVisibility ==
  /\ pc = "inverted"
  /\ style' = MakeVisibleFrom(style, 2)
  /\ pc' = "visible"
  /\ UNCHANGED <<nodeType, parentNode, tagName, textContent, passes, textBefore,
                 textBuilt, styleBefore, styleBuilt, elementsToInvert, forcedBlack,
                 call, exportVars>>

\* a contrast loop that corrects only the elements the inversion had flagged
RECURSIVE FixContrastFrom_OnlyInverted(_, _, _)
FixContrastFrom_OnlyInverted(st, forced, i) ==
  IF i > Len(nodeType) THEN [style |-> st, forced |-> forced]
  ELSE LET textLum == calculateLuminance(parseColor(getComputedStyle(st, i).color))
           bgLum == calculateLuminance(parseColor(getEffectiveBackgroundColor(st, i)))
           flagged == \E k \in 1..Len(elementsToInvert) :
                        elementsToInvert[k].element = i
       IN IF /\ nodeType[i] = "ELEMENT_NODE" /\ flagged
             /\ BelowContrastRatio(calculateContrastRatio(textLum, bgLum))
          THEN FixContrastFrom_OnlyInverted(
                 [st EXCEPT ![i].color = Specified(Hex(<<0, 0, 0, 0, 0, 0>>))],
                 forced \cup {i}, i + 1)
          ELSE FixContrastFrom_OnlyInverted(st, forced, i + 1)

\* the loop of fixContrastIssues from node i on: the styles it leaves and the
\* elements whose color it wrote
RECURSIVE FixContrastFrom(_, _, _)
FixContrastFrom(st, forced, i) ==
  IF i > Len(nodeType) THEN [style |-> st, forced |-> forced]
  ELSE IF nodeType[i] # "ELEMENT_NODE" THEN FixContrastFrom(st, forced, i + 1)
  ELSE LET computed == getComputedStyle(st, i)
           textColor == computed.color
           bgColor == getEffectiveBackgroundColor(st, i)
           textLum == calculateLuminance(parseColor(textColor))
           bgLum == calculateLuminance(parseColor(bgColor))
           contrast == calculateContrastRatio(textLum, bgLum)
       IN IF BelowContrastRatio(contrast)
          THEN FixContrastFrom(
                 [st EXCEPT ![i].color = Specified(Hex(<<0, 0, 0, 0, 0, 0>>))],
                 forced \cup {i}, i + 1)
          ELSE FixContrastFrom(st, forced, i + 1)

\* fixContrastIssues(element), the third call of processStylesForPDF
fixContrastIssues ==
  /\ pc = "visible"
  /\ LET fixed == FixContrastFrom(style, {}, 2)
     IN /\ style' = fixed.style
        /\ forcedBlack' = fixed.forced
  /\ pc' = "processed"
  /\ passes' = passes + 1
  /\ UNCHANGED <<nodeType, parentNode, tagName, textContent, textBefore, textBuilt,
                 styleBefore, styleBuilt, elementsToInvert, call, exportVars>>

\* declared styles of the elements the caller builds
SampleTextColors == {Unset, Rgb(128, 128, 128), Rgb(255, 255, 0)}

SampleBackgrounds == {Unset, Rgb(0, 0, 0), Rgb(128, 128, 128), Rgb(192, 192, 192)}

SampleStyles ==
  {[color |-> c, backgroundColor |-> b, visibility |-> "", opacity |-> ""] :
     c \in SampleTextColors, b \in SampleBackgrounds}
  \cup {[color |-> Unset, backgroundColor |-> Unset, visibility |-> "hidden",
         opacity |-> "0"],
        [color |-> Unset, backgroundColor |-> Unset, visibility |-> "visible",
         opacity |-> "0.5"]}

\* declared styles of node 1, the element handed to processStylesForPDF: none,
\* those createRenderContainer gives its container (color '#000000' on
\* backgroundColor '#ffffff'), a dark theme's with and without light text, and
\* a hidden one
RootStyles ==
  {NoStyle,
   [color |-> Rgb(0, 0, 0), backgroundColor |-> Rgb(255, 255, 255),
    visibility |-> "", opacity |-> ""],
   [color |-> Unset, backgroundColor |-> Rgb(0, 0, 0),
    visibility |-> "", opacity |-> ""],
   [color |-> Rgb(255, 255, 0), backgroundColor |-> Rgb(0, 0, 0),
    visibility |-> "", opacity |-> ""],
   [color |-> Unset, backgroundColor |-> Unset,
    visibility |-> "hidden", opacity |-> "0"]}

\* the caller's tree construction: one more styled element, appended in
\* document order
appendElement ==
  /\ pc = "build"
  /\ Len(nodeType) < MaxElements
  /\ \E p \in OpenElements, s \in SampleStyles :
       /\ parentNode' = Append(parentNode, p)
       /\ style' = Append(style, s)
  /\ nodeType' = Append(nodeType, "ELEMENT_NODE")
  /\ tagName' = Append(tagName, "DIV")
  /\ textContent' = Append(textContent, <<>>)
  /\ textBefore' = textContent'
  /\ textBuilt' = textContent'
  /\ styleBefore' = style'
  /\ styleBuilt' = style'
  /\ UNCHANGED <<pc, passes, elementsToInvert, forcedBlack, call, exportVars>>

InitContrast ==
  /\ nodeType = <<"ELEMENT_NODE">>
  /\ parentNode = <<0>>
  /\ tagName = <<"DIV">>
  /\ textContent = << <<>> >>
  /\ style \in {<<s>> : s \in RootStyles}
  /\ pc = "build"
  /\ passes = 0
  /\ textBefore = << <<>> >>
  /\ textBuilt = << <<>> >>
  /\ styleBefore = style
  /\ styleBuilt = style
  /\ elementsToInvert = <<>>
  /\ forcedBlack = {}
  /\ call = NoCall
  /\ NoExport

NextContrast ==
  appendElement \/ invertColorsForPDF \/ ensureTextVisibility \/ fixContrastIssues

SpecContrast == InitContrast /\ [][NextContrast]_vars

----------------------------------------------------------------------------
(* Properties of the contrast normalizer *)

Elements == {e \in Nodes : nodeType[e] = "ELEMENT_NODE"}

\* the elements below node 1
Descendants == Elements \ {1}

TextLuminance(st, e) == calculateLuminance(parseColor(getComputedStyle(st, e).color))

BackgroundLuminance(st, e) ==
  calculateLuminance(parseColor(getEffectiveBackgroundColor(st, e)))

\* the element's own computed background, when it is not transparent
HasOwnBackground(st, e) == getComputedStyle(st, e).backgroundColor # TransparentRgba

OwnBackgroundLuminance(st, e) ==
  calculateLuminance(parseColor(getComputedStyle(st, e).backgroundColor))

C8_NoLightOnDarkRemains ==
  pc = "processed" =>
    \A e \in Descendants : ~(TextLuminance(style, e) > BackgroundLuminance(style, e))

\* C9 for the elements the walker visits
C9_BelowRoot ==
  (pc = "processed" /\ passes = 1) =>
    \A e \in Descendants :
      ( /\ TextLuminance(styleBuilt, e) > lightThreshold
        /\ HasOwnBackground(styleBuilt, e)
        /\ OwnBackgroundLuminance(styleBuilt, e) < lightThreshold
        /\ OwnBackgroundLuminance(styleBuilt, e) < TextLuminance(styleBuilt, e) )
      => /\ getComputedStyle(style, e).color = Rgb(0, 0, 0)
         /\ getComputedStyle(style, e).backgroundColor = TransparentRgba

\* C9: after processStylesForPDF, every element whose text luminance exceeded
\* lightThreshold and which declared its own non-transparent background with a
\* luminance below lightThreshold and below the text luminance has the text
\* color #000000 and a transparent background of its own.
C9_LightOnOwnDarkBackground ==
  (pc = "processed" /\ passes = 1) =>
    \A e \in Elements :
      ( /\ TextLuminance(styleBuilt, e) > lightThreshold
        /\ HasOwnBackground(styleBuilt, e)
        /\ OwnBackgroundLuminance(styleBuilt, e) < lightThreshold
        /\ OwnBackgroundLuminance(styleBuilt, e) < TextLuminance(styleBuilt, e) )
      => /\ getComputedStyle(style, e).color = Rgb(0, 0, 0)
         /\ getComputedStyle(style, e).backgroundColor = TransparentRgba

\* the elements of the latest elementsToInvert whose original colour is not
\* lighter than lightThreshold
DarkHueEntries ==
  {k \in 1..Len(elementsToInvert) :
     calculateLuminance(parseColor(elementsToInvert[k].originalColor)) <= lightThreshold}

ContrastOf(st, e) ==
  calculateContrastRatio(TextLuminance(st, e), BackgroundLuminance(st, e))

\* the elements the latest invertColorsForPDF flagged
Flagged == {elementsToInvert[k].element : k \in 1..Len(elementsToInvert)}

\* C11: after processStylesForPDF every element the contrast loop processed
\* has the text colour #000000 or a contrast ratio of at least 4.5 between its
\* resolved text colour and its effective background, whether or not it was
\* classified light-on-dark, and although a parent's rewrite changes the
\* colour its later-processed descendants inherit.
C11_LowContrastForcedToBlack ==
  pc = "processed" =>
    \A e \in Descendants :
      \/ getComputedStyle(style, e).color = Rgb(0, 0, 0)
      \/ ~BelowContrastRatio(ContrastOf(style, e))

\* after a pass: an element that was not flagged was forced to black, a child
\* that declares no colour inherits that black and was itself left alone, and
\* some element kept a colour other than black
C11_Witness ==
  /\ pc = "processed"
  /\ \E e \in forcedBlack \ Flagged :
       /\ getComputedStyle(styleBefore, e).color # Rgb(0, 0, 0)
       /\ \E d \in Descendants \ forcedBlack :
            /\ parentNode[d] = e /\ style[d].color = Unset
            /\ getComputedStyle(styleBefore, d).color # Rgb(0, 0, 0)
  /\ \E e \in Descendants : getComputedStyle(style, e).color # Rgb(0, 0, 0)

\* C18 for the elements the walker visits
C18_BelowRoot ==
  pc = "processed" =>
    \A e \in Descendants :
      /\ getComputedStyle(style, e).visibility # "hidden"
      /\ getComputedStyle(style, e).opacity # "0"
      /\ getComputedStyle(styleBefore, e).opacity = "0"
           => getComputedStyle(style, e).opacity = "1"

\* C18: after processStylesForPDF every element that had visibility hidden
\* has visibility visible and every element that had opacity 0 has opacity 1,
\* whatever its colour classification; no element is left with computed
\* visibility hidden or opacity 0.
C18_HiddenMadeVisible ==
  pc = "processed" =>
    \A e \in Elements :
      /\ getComputedStyle(styleBefore, e).visibility = "hidden"
           => getComputedStyle(style, e).visibility = "visible"
      /\ getComputedStyle(styleBefore, e).opacity = "0"
           => getComputedStyle(style, e).opacity = "1"
      /\ getComputedStyle(style, e).visibility # "hidden"
      /\ getComputedStyle(style, e).opacity # "0"

\* C19: processStylesForPDF applies the inversion, the visibility/opacity fix
\* and the contrast fix to every element of the tree, node 1 included, in
\* document order: every element that was light-on-dark when the pass began is
\* in elementsToInvert, which is in document order, none is left hidden or
\* with opacity 0, and each has black text or a contrast ratio of at least 4.5.
C19_EveryElementNormalized ==
  pc = "processed" =>
    /\ \A e \in Elements :
         /\ TextLuminance(styleBefore, e) > BackgroundLuminance(styleBefore, e)
              => e \in Flagged
         /\ getComputedStyle(style, e).visibility # "hidden"
         /\ getComputedStyle(style, e).opacity # "0"
         /\ \/ getComputedStyle(style, e).color = Rgb(0, 0, 0)
            \/ ~BelowContrastRatio(ContrastOf(style, e))
    /\ \A j, k \in 1..Len(elementsToInvert) :
         j < k => elementsToInvert[j].element < elementsToInvert[k].element

\* the count invertColorsForPDF logs
reportedCount == Len(elementsToInvert)

\* the elements whose own color declaration and resolved text colour both
\* differ from what they were when the pass began
RewrittenElements ==
  {e \in Elements :
     /\ style[e].color # styleBefore[e].color
     /\ getComputedStyle(style, e).color # getComputedStyle(styleBefore, e).color}

\* C20 as claimed: the count reported for a pass is the number of elements
\* whose text colour was rewritten during the pass, those forced to black by
\* the contrast step included, those whose colour was left unchanged excluded.
C20_ReportCountsRewritten ==
  pc = "processed" => reportedCount = Cardinality(RewrittenElements)

\* C20 as amended: the count reported for a pass is the number of elements
\* below node 1 that were light-on-dark when the pass began, each of which had
\* its color declaration assigned by the inversion step, whether or not the
\* value changed; the elements the contrast step forces to black later are
\* not counted.
C20_ReportCountsFlagged ==
  pc \in {"inverted", "visible", "processed"} =>
    /\ reportedCount =
         Cardinality({e \in Descendants :
                        TextLuminance(styleBefore, e) > BackgroundLuminance(styleBefore, e)})
    /\ Cardinality(Flagged) = reportedCount
    /\ \A e \in Flagged : style[e].color # Unset
    /\ pc = "inverted" =>
         \A e \in Elements \ Flagged : style[e].color = styleBefore[e].color

\* after a pass: a counted element whose colour the pass left unchanged and an
\* element forced to black by the contrast step that was not counted
C20_Witness ==
  /\ pc = "processed"
  /\ \E e \in Flagged :
       getComputedStyle(style, e).color = getComputedStyle(styleBefore, e).color
  /\ \E e \in forcedBlack \ Flagged : e \in RewrittenElements
  /\ reportedCount # Cardinality(RewrittenElements)

----------------------------------------------------------------------------
(* Properties of the whitespace normalizer *)

TextNodes == {i \in Nodes : nodeType[i] = "TEXT_NODE"}

IsInlineElement(i) ==
  i # 0 /\ nodeType[i] = "ELEMENT_NODE" /\ ToLowerCase(tagName[i]) \notin blockElements

IsBlockElement(i) ==
  i # 0 /\ nodeType[i] = "ELEMENT_NODE" /\ ToLowerCase(tagName[i]) \in blockElements

IsWhitespaceOnly(text) == \A k \in 1..Len(text) : text[k] \in WhitespaceChars

\* the latest pass wrote one space character in front of / behind leaf i
PrefixAdded(i) ==
  textContent[i] \in {<<" ">> \o textBefore[i], <<" ">> \o textBefore[i] \o <<" ">>}

SuffixAdded(i) ==
  textContent[i] \in {textBefore[i] \o <<" ">>, <<" ">> \o textBefore[i] \o <<" ">>}

\* C1: a normalizeWhitespace pass over the output of an earlier pass changes
\* the content of no text leaf.
C1_WhitespaceIdempotent ==
  passes >= 2 => textContent = textBefore

\* the second pass ran over a tree that the first pass had changed
C1_Witness ==
  passes = 2 /\ textBefore # textBuilt /\ textContent = textBefore

\* the last / first child of element e, 0 when it has none
lastChild(e) ==
  LET kids == {m \in Nodes : parentNode[m] = e}
  IN IF kids = {} THEN 0 ELSE CHOOSE m \in kids : \A k \in kids : k <= m

firstChild(e) ==
  LET kids == {m \in Nodes : parentNode[m] = e}
  IN IF kids = {} THEN 0 ELSE CHOOSE m \in kids : \A k \in kids : m <= k

\* a, b are adjacent inline sibling elements whose facing leaves are non-blank
\* text with no whitespace at the shared boundary (as the pass found them)
FacingInlineWords(a, b) ==
  /\ IsInlineElement(a) /\ IsInlineElement(b) /\ nextSibling(a) = b
  /\ lastChild(a) # 0 /\ firstChild(b) # 0
  /\ nodeType[lastChild(a)] = "TEXT_NODE" /\ nodeType[firstChild(b)] = "TEXT_NODE"
  /\ ~IsWhitespaceOnly(textBefore[lastChild(a)])
  /\ ~IsWhitespaceOnly(textBefore[firstChild(b)])
  /\ ~EndsWithWhitespace(textBefore[lastChild(a)])
  /\ ~StartsWithWhitespace(textBefore[firstChild(b)])

\* C3: after normalizeWhitespace, two adjacent inline sibling elements that each
\* wrap a non-blank text leaf have whitespace between the two words: one of the
\* two facing leaves has gained a boundary space.
C3_AdjacentInlineGetSpace ==
  passes >= 1 =>
    \A a, b \in Nodes :
      FacingInlineWords(a, b) =>
        \/ EndsWithWhitespace(textContent[lastChild(a)])
        \/ StartsWithWhitespace(textContent[firstChild(b)])

\* C4: normalizeWhitespace adds no space to the side of a text leaf whose
\* immediate sibling on that side is a block-level element, nor to a side on
\* which the leaf has no sibling; a leaf with neither kind of neighbour on
\* either side (as in <div>Hello</div><div>World</div>) is left unchanged.
C4_BlockBoundaries ==
  passes >= 1 =>
    \A i \in TextNodes :
      /\ (previousSibling(i) = 0 \/ IsBlockElement(previousSibling(i)))
            => ~PrefixAdded(i)
      /\ (nextSibling(i) = 0 \/ IsBlockElement(nextSibling(i)))
            => ~SuffixAdded(i)
      /\ ( /\ (previousSibling(i) = 0 \/ IsBlockElement(previousSibling(i)))
           /\ (nextSibling(i) = 0 \/ IsBlockElement(nextSibling(i))) )
            => textContent[i] = textBefore[i]

\* a leaf after a block element and before an inline one: the pass wrote a
\* space behind it and none in front of it
C4_Witness ==
  /\ passes = 1
  /\ \E i \in TextNodes :
       /\ IsBlockElement(previousSibling(i)) /\ IsInlineElement(nextSibling(i))
       /\ textBefore[i] = <<"x">> /\ textContent[i] = <<"x", " ">>

\* C5: a non-blank text leaf whose previous (next) sibling is an element outside
\* the block set begins (ends) with whitespace after the pass; exactly one space
\* character was prefixed (suffixed) when its own edge was not whitespace, and
\* nothing was added on that side when it was.
C5_InlineSiblingRule ==
  passes >= 1 =>
    \A i \in TextNodes :
      ~IsWhitespaceOnly(textBefore[i]) =>
        /\ IsInlineElement(previousSibling(i)) =>
             /\ StartsWithWhitespace(textContent[i])
             /\ PrefixAdded(i) <=> ~StartsWithWhitespace(textBefore[i])
        /\ IsInlineElement(nextSibling(i)) =>
             /\ EndsWithWhitespace(textContent[i])
             /\ SuffixAdded(i) <=> ~EndsWithWhitespace(textBefore[i])

\* a leaf between two inline elements gained a space on the side that had
\* none and nothing on the side that had whitespace
C5_Witness ==
  /\ passes = 1
  /\ \E i \in TextNodes :
       /\ IsInlineElement(previousSibling(i)) /\ IsInlineElement(nextSibling(i))
       /\ textBefore[i] = <<"x", "\t">>
       /\ textContent[i] = <<" ", "x", "\t">>

\* j and i are adjacent text leaves, both non-blank, with no whitespace at the
\* boundary they share (as the pass found them)
FacingTextLeaves(j, i) ==
  /\ j \in TextNodes /\ i \in TextNodes /\ nextSibling(j) = i
  /\ ~IsWhitespaceOnly(textBefore[j]) /\ ~IsWhitespaceOnly(textBefore[i])
  /\ ~EndsWithWhitespace(textBefore[j]) /\ ~StartsWithWhitespace(textBefore[i])

\* C6 as claimed: the text-sibling check reads the already mutated content, so
\* between two adjacent non-blank text leaves with no whitespace at the shared
\* boundary one pass inserts exactly one space character, not one on each leaf.
C6_OneSpaceBetweenTextLeaves ==
  passes >= 1 =>
    \A j, i \in Nodes :
      FacingTextLeaves(j, i) => (SuffixAdded(j) <=> ~PrefixAdded(i))

\* C6 as amended: the text-sibling check reads the content the pass started
\* with: a non-blank leaf gains a space on the side of a text sibling exactly
\* when that sibling's facing edge and its own edge were both not whitespace
\* at the start of the pass, so two facing non-blank leaves each gain one.
C6_TextSiblingRule ==
  passes >= 1 =>
    \A i \in TextNodes :
      ~IsWhitespaceOnly(textBefore[i]) =>
        /\ (previousSibling(i) # 0 /\ nodeType[previousSibling(i)] = "TEXT_NODE") =>
             (PrefixAdded(i) <=>
                /\ ~EndsWithWhitespace(textBefore[previousSibling(i)])
                /\ ~StartsWithWhitespace(textBefore[i]))
        /\ (nextSibling(i) # 0 /\ nodeType[nextSibling(i)] = "TEXT_NODE") =>
             (SuffixAdded(i) <=>
                /\ ~StartsWithWhitespace(textBefore[nextSibling(i)])
                /\ ~EndsWithWhitespace(textBefore[i]))

\* two facing non-blank text leaves after a pass: both gained a space
C6_Witness ==
  /\ passes = 1
  /\ \E j, i \in Nodes :
       FacingTextLeaves(j, i) /\ SuffixAdded(j) /\ PrefixAdded(i)

\* C7: a normalizeWhitespace pass changes nothing but the content of non-blank
\* text leaves, whose new content is the old content with at most one space
\* character prefixed and at most one suffixed; empty and whitespace-only
\* leaves, element styles, the set of nodes and their relations are unchanged.
C7_WhitespaceFrame ==
  [][pc' = "whitespace" =>
       /\ nodeType' = nodeType /\ parentNode' = parentNode
       /\ tagName' = tagName /\ style' = style
       /\ \A i \in Nodes :
            IF nodeType[i] = "TEXT_NODE" /\ ~IsWhitespaceOnly(textContent[i])
            THEN textContent'[i] \in
                   {textContent[i], <<" ">> \o textContent[i],
                    textContent[i] \o <<" ">>,
                    <<" ">> \o textContent[i] \o <<" ">>}
            ELSE textContent'[i] = textContent[i]]_vars

\* a pass that wrote both sides of one leaf and left an empty and a
\* whitespace-only leaf beside inline elements alone
C7_Witness ==
  /\ passes = 1
  /\ \E i \in TextNodes : PrefixAdded(i) /\ SuffixAdded(i)
  /\ \E i \in TextNodes :
       /\ textBefore[i] \in {<<>>, <<" ">>} /\ textContent[i] = textBefore[i]
       /\ IsInlineElement(previousSibling(i)) \/ IsInlineElement(nextSibling(i))

----------------------------------------------------------------------------
(* getEffectiveBackgroundColor over deep chains of nested elements *)

\* elements of a chain of nested elements, node 1 included
MaxChain == 11
\* elements of a chain that declare a background
MaxBackgrounds == 2

\* backgrounds declared along a chain: opaque black and a red whose alpha is
\* 0; an element that declares none has the computed value 'rgba(0, 0, 0, 0)'
ChainBackgrounds == {Rgb(0, 0, 0), Rgba(255, 0, 0, 0)}

DeclaredBackgrounds ==
  Cardinality({e \in Nodes : style[e].backgroundColor # Unset})

\* the caller's tree construction: one more element, nested in the last one
appendNested ==
  /\ pc = "build"
  /\ Len(nodeType) < MaxChain
  /\ \E b \in {Unset} \cup ChainBackgrounds :
       /\ b # Unset => DeclaredBackgrounds < MaxBackgrounds
       /\ style' = Append(style, [NoStyle EXCEPT !.backgroundColor = b])
  /\ parentNode' = Append(parentNode, Len(nodeType))
  /\ nodeType' = Append(nodeType, "ELEMENT_NODE")
  /\ tagName' = Append(tagName, "DIV")
  /\ textContent' = Append(textContent, <<>>)
  /\ textBefore' = textContent'
  /\ textBuilt' = textContent'
  /\ styleBefore' = style'
  /\ styleBuilt' = style'
  /\ UNCHANGED <<pc, passes, elementsToInvert, forcedBlack, call, exportVars>>

\* getEffectiveBackgroundColor(element) for an element of the tree
callGetEffectiveBackgroundColor ==
  /\ \E element \in Elements :
       call' = [fn |-> "getEffectiveBackgroundColor", args |-> <<element>>,
                result |-> getEffectiveBackgroundColor(style, element)]
  /\ UNCHANGED <<nodeType, parentNode, tagName, textContent, style, pc, passes,
                 textBefore, textBuilt, styleBefore, styleBuilt, elementsToInvert,
                 forcedBlack, exportVars>>

InitBackground ==
  /\ nodeType = <<"ELEMENT_NODE">>
  /\ parentNode = <<0>>
  /\ tagName = <<"DIV">>
  /\ textContent = << <<>> >>
  /\ style \in {<<[NoStyle EXCEPT !.backgroundColor = b]>> :
                  b \in {Unset} \cup ChainBackgrounds}
  /\ pc = "build"
  /\ passes = 0
  /\ textBefore = << <<>> >>
  /\ textBuilt = << <<>> >>
  /\ styleBefore = style
  /\ styleBuilt = style
  /\ elementsToInvert = <<>>
  /\ forcedBlack = {}
  /\ call = NoCall
  /\ NoExport

NextBackground == appendNested \/ callGetEffectiveBackgroundColor

SpecBackground == InitBackground /\ [][NextBackground]_vars

\* '#ffffff'
White == Hex(<<15, 15, 15, 15, 15, 15>>)

\* a computed colour whose alpha is 0
IsFullyTransparent(bgColor) == bgColor.fn = "rgba" /\ bgColor.args[4] = 0

\* the background of the nearest node, from e upward, whose background is not
\* fully transparent; white when there is none up to node 1
RECURSIVE NearestNotFullyTransparent(_, _)
NearestNotFullyTransparent(st, e) ==
  IF e = 0 THEN White
  ELSE LET bgColor == getComputedStyle(st, e).backgroundColor
       IN IF ~IsFullyTransparent(bgColor) THEN bgColor
          ELSE NearestNotFullyTransparent(st, parentNode[e])

\* C12: getEffectiveBackgroundColor(e) is the background of the nearest node,
\* from e itself upward, whose background is not fully transparent, and white
\* (#ffffff) when there is no such node up to the root.
C12_NearestBackgroundOrWhite ==
  call.fn = "getEffectiveBackgroundColor" =>
    call.result = NearestNotFullyTransparent(style, call.args[1])

\* the ancestor of e at distance d (e itself at distance 0); 0 when the chain
\* is shorter
RECURSIVE AncestorAt(_, _)
AncestorAt(e, d) ==
  IF e = 0 \/ d = 0 THEN e ELSE AncestorAt(parentNode[e], d - 1)

\* the distance from e to the nearest node, from e upward, whose computed
\* background passes the walk's own test; -1 when there is none
RECURSIVE BackgroundDistance(_, _, _)
BackgroundDistance(st, e, d) ==
  IF e = 0 THEN -1
  ELSE IF IsNonTransparent(getComputedStyle(st, e).backgroundColor) THEN d
  ELSE BackgroundDistance(st, parentNode[e], d + 1)

\* the value the walk returns when it finds the background at distance d
BackgroundAt(st, e, d) == getComputedStyle(st, AncestorAt(e, d)).backgroundColor

\* C13 as claimed: a background on the element or on any of its 10 nearest
\* ancestors (distance 0 to 10) is found; when the nearest one lies farther
\* away, or there is none, the walk returns white.
C13_FoundUpToDistanceTen ==
  call.fn = "getEffectiveBackgroundColor" =>
    LET e == call.args[1]
        d == BackgroundDistance(style, e, 0)
    IN IF d >= 0 /\ d <= maxDepth
       THEN call.result = BackgroundAt(style, e, d)
       ELSE call.result = White

\* C13 as amended: the walk examines maxDepth = 10 nodes, the element and its 9
\* nearest ancestors: a background at distance 0 to 9 is found; when the
\* nearest one lies at distance 10 or more, or there is none, the walk returns
\* white.
C13_FoundUpToDistanceNine ==
  call.fn = "getEffectiveBackgroundColor" =>
    LET e == call.args[1]
        d == BackgroundDistance(style, e, 0)
    IN IF d >= 0 /\ d <= maxDepth - 1
       THEN call.result = BackgroundAt(style, e, d)
       ELSE call.result = White

\* a call for an element whose only background lies at distance 10 and is
\* opaque black: the walk returned white
C13_Witness ==
  /\ call.fn = "getEffectiveBackgroundColor"
  /\ BackgroundDistance(style, call.args[1], 0) = maxDepth
  /\ BackgroundAt(style, call.args[1], maxDepth) = Rgb(0, 0, 0)
  /\ call.result = White

----------------------------------------------------------------------------
(* Calls of the colour helpers parseColor, calculateLuminance and             *)
(* calculateContrastRatio                                                     *)

\* colour strings handed to parseColor: rgb() and rgba(), '#' with 3, 6, 8, 5,
\* 4, 2 and 0 hex digits, and keywords
SampleColorStrings ==
  {Rgb(0, 0, 0), Rgb(255, 255, 0), Rgba(18, 52, 86, 50), TransparentRgba,
   Hex(<<15, 15, 0>>), Hex(<<15, 15, 0, 0, 8, 0>>),
   Hex(<<1, 2, 3, 4, 5, 6, 7, 8>>), Hex(<<1, 2, 3, 4, 5>>),
   Hex(<<15, 15, 15, 15>>), Hex(<<15, 15>>), Hex(<<>>),
   Keyword("transparent"), Keyword("black"), Keyword("white"), Keyword("yellow")}

\* channel values handed to calculateLuminance: both ends of the range and the
\* two values around the 0.03928 branch point (10 / 255 and 11 / 255)
SampleChannels == {0, 10, 11, 128, 255}

\* luminances handed to calculateContrastRatio
SampleLuminances ==
  {calculateLuminance(<<v, v, v>>) : v \in SampleChannels}
    \cup {calculateLuminance(<<255, 255, 0>>)}

callParseColor ==
  /\ \E color \in SampleColorStrings :
       call' = [fn |-> "parseColor", args |-> <<color>>, result |-> parseColor(color)]
  /\ UNCHANGED <<nodeType, parentNode, tagName, textContent, style, pc, passes,
                 textBefore, textBuilt, styleBefore, styleBuilt, elementsToInvert,
                 forcedBlack, exportVars>>

callCalculateLuminance ==
  /\ \E r \in SampleChannels, g \in SampleChannels, b \in SampleChannels :
       call' = [fn |-> "calculateLuminance", args |-> << <<r, g, b>> >>,
                result |-> calculateLuminance(<<r, g, b>>)]
  /\ UNCHANGED <<nodeType, parentNode, tagName, textContent, style, pc, passes,
                 textBefore, textBuilt, styleBefore, styleBuilt, elementsToInvert,
                 forcedBlack, exportVars>>

callCalculateContrastRatio ==
  /\ \E lum1 \in SampleLuminances, lum2 \in SampleLuminances :
       call' = [fn |-> "calculateContrastRatio", args |-> <<lum1, lum2>>,
                result |-> calculateContrastRatio(lum1, lum2)]
  /\ UNCHANGED <<nodeType, parentNode, tagName, textContent, style, pc, passes,
                 textBefore, textBuilt, styleBefore, styleBuilt, elementsToInvert,
                 forcedBlack, exportVars>>

InitColor ==
  /\ nodeType = <<"ELEMENT_NODE">>
  /\ parentNode = <<0>>
  /\ tagName = <<"DIV">>
  /\ textContent = << <<>> >>
  /\ style = <<NoStyle>>
  /\ pc = "build"
  /\ passes = 0
  /\ textBefore = << <<>> >>
  /\ textBuilt = << <<>> >>
  /\ styleBefore = <<NoStyle>>
  /\ styleBuilt = <<NoStyle>>
  /\ elementsToInvert = <<>>
  /\ forcedBlack = {}
  /\ call = NoCall
  /\ NoExport

NextColor == callParseColor \/ callCalculateLuminance \/ callCalculateContrastRatio

SpecColor == InitColor /\ [][NextColor]_vars

\* C14: parseColor returns (255,255,255) for every fully transparent input,
\* the keyword 'transparent' and the string 'rgba(0, 0, 0, 0)' alike, and
\* never (0,0,0).
C14_TransparentIsWhite ==
  (call.fn = "parseColor" /\ call.args[1] \in {Keyword("transparent"), TransparentRgba})
    => call.result = <<255, 255, 255>>

\* C15: for every input parseColor returns a triple of integer channel values
\* each in 0..255, never NaN: '#' strings of a length other than 3 or 6 are not
\* parsed natively.
C15_ChannelsInRange ==
  call.fn = "parseColor" =>
    /\ Len(call.result) = 3
    /\ \A k \in 1..3 : call.result[k] \in 0..255

\* 1 in the units of calculateLuminance (in IEEE doubles
\* 0.2126 * 1 + 0.7152 * 1 + 0.0722 * 1 evaluates to exactly 1)
LuminanceOne == 100000000

\* val / 255 <= 0.03928
InLinearBranch(val) == 100000 * val <= 3928 * 255

Abs(x) == IF x >= 0 THEN x ELSE -x

\* C16: for every triple with channels in 0..255 calculateLuminance returns a
\* value in [0,1], 0 for (0,0,0) and 1 for (255,255,255); it is the sum of the
\* linearised channels weighted 0.2126, 0.7152 and 0.0722, a channel with
\* v / 255 <= 0.03928 being linearised as v / 255 / 12.92 (to the table's
\* precision of 10^-4) and the others by the tabulated power law, which is
\* increasing and ends at 1.
C16_LuminanceBounds ==
  call.fn = "calculateLuminance" =>
    LET rgb == call.args[1]
        lum == call.result
    IN /\ lum >= 0 /\ lum <= LuminanceOne
       /\ rgb = <<0, 0, 0>> => lum = 0
       /\ rgb = <<255, 255, 255>> => lum = LuminanceOne
       /\ lum = 2126 * Linearized[rgb[1] + 1] + 7152 * Linearized[rgb[2] + 1]
                  + 722 * Linearized[rgb[3] + 1]
       /\ \A k \in 1..3 :
            /\ InLinearBranch(rgb[k]) =>
                 2 * Abs(Linearized[rgb[k] + 1] * 329460 - 1000000 * rgb[k]) <= 329460
            /\ ~InLinearBranch(rgb[k]) =>
                 /\ Linearized[rgb[k] + 1] > Linearized[rgb[k]]
                 /\ Linearized[rgb[k] + 1] <= Linearized[256]
                 /\ Linearized[256] = 10000

\* a call with one channel on each side of the branch point and one at the
\* top of the range: a luminance strictly between 0 and 1
C16_Witness ==
  /\ call.fn = "calculateLuminance"
  /\ call.args[1] = <<10, 11, 255>>
  /\ call.result > 0 /\ call.result < LuminanceOne

\* C17: calculateContrastRatio(a, b) = calculateContrastRatio(b, a)
\* = (max(a, b) + 0.05) / (min(a, b) + 0.05) for all luminances a, b in [0,1],
\* and the ratio lies in [1, 21].
C17_ContrastRatioSymmetricInRange ==
  call.fn = "calculateContrastRatio" =>
    LET a == call.args[1]
        b == call.args[2]
        ratio == call.result
    IN /\ ratio = calculateContrastRatio(b, a)
       /\ ratio = <<(IF a >= b THEN a ELSE b) + FlareOffset,
                    (IF a >= b THEN b ELSE a) + FlareOffset>>
       /\ ratio[1] >= ratio[2]
       /\ (ratio[1] + 20) \div 21 <= ratio[2]

\* a call whose first argument is the darker one, black against white: the
\* ratio is 21
C17_Witness ==
  /\ call.fn = "calculateContrastRatio"
  /\ call.args = <<0, LuminanceOne>>
  /\ call.result[1] = 21 * call.result[2]

----------------------------------------------------------------------------
(* scripts/main.js and scripts/pdf-generator.js: handleExportClick and the   *)
(* exportJournalToPDF call it awaits.  Synchronous code runs to its next     *)
(* await without interleaving, so a click is handled only while no export    *)
(* runs (pc = "idle") or while one waits for html2canvas (pc = "html2canvas").*)

\* pages of a journal entry handed to exportJournalToPDF
MaxPages == 2
\* export-button clicks in one session
MaxClicks == 3

\* a colour whose computed value is neither rgb() nor rgba(): CSS Color 4
\* 'color(display-p3 1 0 0)' is returned by getComputedStyle as it was declared
DisplayP3Red == [fn |-> "color", args |-> <<"display-p3", 1, 0, 0>>]

\* page.text.content as content.innerHTML parses it: the nodes in document
\* order, parentNode counted from the content element (0)
NoContent ==
  [nodeType |-> <<>>, parentNode |-> <<>>, tagName |-> <<>>,
   textContent |-> <<>>, style |-> <<>>]

\* 'x'
PlainText ==
  [nodeType |-> <<"TEXT_NODE">>, parentNode |-> <<0>>, tagName |-> <<"">>,
   textContent |-> << <<"x">> >>, style |-> <<NoStyle>>]

\* '<span style="color: rgb(255, 255, 0); background-color: rgb(0, 0, 0)">x</span>y'
LightOnDarkSpan ==
  [nodeType |-> <<"ELEMENT_NODE", "TEXT_NODE", "TEXT_NODE">>,
   parentNode |-> <<0, 1, 0>>,
   tagName |-> <<"SPAN", "", "">>,
   textContent |-> << <<>>, <<"x">>, <<"y">> >>,
   style |-> <<[color |-> Rgb(255, 255, 0), backgroundColor |-> Rgb(0, 0, 0),
                visibility |-> "", opacity |-> ""], NoStyle, NoStyle>>]

\* '<span style="color: rgb(128, 128, 128); visibility: hidden; opacity: 0">x</span>'
HiddenGreySpan ==
  [nodeType |-> <<"ELEMENT_NODE", "TEXT_NODE">>,
   parentNode |-> <<0, 1>>,
   tagName |-> <<"SPAN", "">>,
   textContent |-> << <<>>, <<"x">> >>,
   style |-> <<[color |-> Rgb(128, 128, 128), backgroundColor |-> Unset,
                visibility |-> "hidden", opacity |-> "0"], NoStyle>>]

\* '<span style="color: color(display-p3 1 0 0)">x</span>'
WideGamutSpan ==
  [nodeType |-> <<"ELEMENT_NODE", "TEXT_NODE">>,
   parentNode |-> <<0, 1>>,
   tagName |-> <<"SPAN", "">>,
   textContent |-> << <<>>, <<"x">> >>,
   style |-> <<[color |-> DisplayP3Red, backgroundColor |-> Unset,
                visibility |-> "", opacity |-> ""], NoStyle>>]

SamplePageContents ==
  {NoContent, PlainText, LightOnDarkSpan, HiddenGreySpan, WideGamutSpan}

SamplePages == {[name |-> <<"T">>, content |-> c] : c \in SamplePageContents}

\* journal.pages of the journals whose sheet shows the export button
SampleJournals ==
  UNION {[1..n -> SamplePages] : n \in 0..MaxPages}

\* whether the recursion of parseColor reaches one of its return statements:
\* the fallback calls parseColor on the computed colour of a temporary
\* element, which is the same call again when that value is the string it
\* was given
RECURSIVE parseColorReturns(_)
parseColorReturns(color) ==
  IF color.fn \in {"rgb", "rgba"} /\ Len(color.args) >= 3 THEN TRUE
  ELSE IF color.fn = "#" THEN TRUE
  ELSE IF color.fn = "transparent" THEN TRUE
  ELSE IF Computed(color) = color THEN FALSE
  ELSE parseColorReturns(Computed(color))

\* the first loop of invertColorsForPDF calls isLightOnDark, and so parseColor,
\* on the computed color and the effective background of every element the
\* walker visits; a call that never returns exhausts the call stack
RaisesRangeError(st) ==
  \E e \in 2..Len(nodeType) :
    /\ nodeType[e] = "ELEMENT_NODE"
    /\ \/ ~parseColorReturns(getComputedStyle(st, e).color)
       \/ ~parseColorReturns(getEffectiveBackgroundColor(st, e))

\* a guard that lets a click through whatever the flag says
AlreadyInProgress_Never == FALSE

\* if (exportInProgress)
AlreadyInProgress == exportInProgress

\* a page test that passes every journal
HasNoPages_Never(pages) == FALSE

\* !pages || pages.size === 0
HasNoPages(pages) == Len(pages) = 0

\* a loop that is left after its first page
AllPagesCreated_AfterFirst == pageIndex >= 1 \/ Len(journal) = 0

\* pageArray.forEach has run its callback on every page
AllPagesCreated == pageIndex = Len(journal)

\* the element createPageElement is filling: the content element of the page
\* created last
CurrentContent == lastChild(lastChild(1))

\* the tree variables are untouched
TreeUnchanged ==
  UNCHANGED <<nodeType, parentNode, tagName, textContent, style, textBefore,
              textBuilt, styleBefore, styleBuilt, elementsToInvert, forcedBlack>>

\* an error thrown inside exportJournalToPDF: its catch logs and rethrows, the
\* catch of handleExportClick notifies and its finally clears the flag
ExportThrows(message) ==
  /\ notification' = [type |-> "error", message |-> message]
  /\ exportInProgress' = FALSE
  /\ pendingExports' = pendingExports - 1
  /\ pc' = "idle"

\* handleExportClick(app) up to its first await; exportJournalToPDF starts
\* with normalizeJournalContent creating the 'pdf-content' element
handleExportClick ==
  /\ pc \in {"idle", "html2canvas"}
  /\ clicks < MaxClicks
  /\ clicks' = clicks + 1
  /\ \E pages \in SampleJournals :
       IF AlreadyInProgress
       THEN /\ notification' = [type |-> "warn", message |-> "Export already in progress"]
            /\ TreeUnchanged
            /\ UNCHANGED <<pc, exportInProgress, pendingExports, journal, pageIndex>>
       ELSE IF HasNoPages(pages)
       THEN /\ notification' = [type |-> "warn", message |-> "Journal has no pages to export"]
            /\ TreeUnchanged
            /\ UNCHANGED <<pc, exportInProgress, pendingExports, journal, pageIndex>>
       ELSE /\ exportInProgress' = TRUE
            /\ notification' = [type |-> "info", message |-> "Exporting"]
            /\ pendingExports' = pendingExports + 1
            /\ journal' = pages
            /\ pageIndex' = 0
            /\ nodeType' = <<"ELEMENT_NODE">>
            /\ parentNode' = <<0>>
            /\ tagName' = <<"DIV">>
            /\ textContent' = << <<>> >>
            /\ style' = <<NoStyle>>
            /\ textBefore' = textContent'
            /\ textBuilt' = textContent'
            /\ styleBefore' = style'
            /\ styleBuilt' = style'
            /\ elementsToInvert' = <<>>
            /\ forcedBlack' = {}
            /\ pc' = "normalizeJournalContent"
  /\ UNCHANGED <<passes, call, renderContainers, images, imageIndex, fetched>>

\* one callback of pageArray.forEach up to the call of normalizeWhitespace:
\* createPageElement builds the page element, its title and its content
\* element, and content.innerHTML parses the page's text
createPageElement ==
  /\ pc = "normalizeJournalContent"
  /\ ~AllPagesCreated
  /\ LET page == journal[pageIndex + 1]
         parsed == page.content
         pageDiv == Len(nodeType) + 1
         title == pageDiv + 1
         content == pageDiv + 3
     IN /\ nodeType' = nodeType
               \o <<"ELEMENT_NODE", "ELEMENT_NODE", "TEXT_NODE", "ELEMENT_NODE">>
               \o parsed.nodeType
        /\ parentNode' = parentNode \o <<1, pageDiv, title, pageDiv>>
               \o [k \in 1..Len(parsed.parentNode) |-> content + parsed.parentNode[k]]
        /\ tagName' = tagName \o <<"DIV", "H1", "", "DIV">> \o parsed.tagName
        /\ textContent' = textContent \o << <<>>, <<>>, page.name, <<>> >>
               \o parsed.textContent
        /\ style' = style \o <<NoStyle, NoStyle, NoStyle, NoStyle>> \o parsed.style
        \* if (page.text?.content)
        /\ IF parsed = NoContent
           THEN pc' = "normalizeJournalContent" /\ pageIndex' = pageIndex + 1
           ELSE pc' = "normalizeWhitespace" /\ pageIndex' = pageIndex
  /\ textBefore' = textContent'
  /\ textBuilt' = textBuilt \o SubSeq(textContent', Len(textContent) + 1, Len(textContent'))
  /\ styleBefore' = style'
  /\ styleBuilt' = style'
  /\ UNCHANGED <<passes, elementsToInvert, forcedBlack, call, exportInProgress,
                 pendingExports, journal, renderContainers, notification, clicks,
                 images, imageIndex, fetched>>

\* normalizeWhitespace(content) for the page created last, and the rest of
\* the forEach callback
normalizeWhitespaceOfPage ==
  /\ pc = "normalizeWhitespace"
  /\ textContent' = ApplyFixes(textContent, nodesToFix(CurrentContent + 1))
  /\ textBefore' = textContent
  /\ pageIndex' = pageIndex + 1
  /\ pc' = "normalizeJournalContent"
  /\ UNCHANGED <<nodeType, parentNode, tagName, style, passes, textBuilt,
                 styleBefore, styleBuilt, elementsToInvert, forcedBlack, call,
                 exportInProgress, pendingExports, journal, renderContainers,
                 notification, clicks, images, imageIndex, fetched>>

\* the style createRenderContainer assigns: color '#000000' on the
\* backgroundColor of CONFIG.RENDER_CONTAINER, '#ffffff'
RenderContainerStyle ==
  [color |-> Specified(Hex(<<0, 0, 0, 0, 0, 0>>)),
   backgroundColor |-> Specified(Hex(<<15, 15, 15, 15, 15, 15>>)),
   visibility |-> "", opacity |-> ""]

\* node numbers after a new root has been put above node 1
UnderNewRoot(parents) == <<0>> \o [i \in 1..Len(parents) |-> parents[i] + 1]

\* normalizeJournalContent returns; createRenderContainer(normalizedContent)
\* wraps the content in a new element and attaches it to document.body
createRenderContainer ==
  /\ pc = "normalizeJournalContent"
  /\ AllPagesCreated
  /\ nodeType' = <<"ELEMENT_NODE">> \o nodeType
  /\ parentNode' = UnderNewRoot(parentNode)
  /\ tagName' = <<"DIV">> \o tagName
  /\ textContent' = << <<>> >> \o textContent
  /\ style' = <<RenderContainerStyle>> \o style
  /\ textBefore' = << <<>> >> \o textBefore
  /\ textBuilt' = << <<>> >> \o textBuilt
  /\ styleBefore' = style'
  /\ styleBuilt' = style'
  /\ renderContainers' = renderContainers + 1
  /\ pc' = "processStylesForPDF"
  /\ UNCHANGED <<passes, elementsToInvert, forcedBlack, call, exportInProgress,
                 pendingExports, journal, pageIndex, notification, clicks, images,
                 imageIndex, fetched>>

\* processStylesForPDF(container): invertColorsForPDF, ensureTextVisibility and
\* fixContrastIssues in turn
processStylesForPDF ==
  /\ pc = "processStylesForPDF"
  /\ IF RaisesRangeError(style)
     THEN /\ ExportThrows("Maximum call stack size exceeded")
          /\ UNCHANGED <<style, styleBefore, elementsToInvert, forcedBlack>>
     ELSE LET entries == CollectElementsToInvert(style, 2)
              inverted == InvertAll(style, entries)
              visible == MakeVisibleFrom(inverted, 2)
              fixed == FixContrastFrom(visible, {}, 2)
          IN /\ style' = fixed.style
             /\ styleBefore' = style
             /\ elementsToInvert' = entries
             /\ forcedBlack' = fixed.forced
             /\ pc' = "generatePDF"
             /\ UNCHANGED <<exportInProgress, pendingExports, notification>>
  /\ UNCHANGED <<nodeType, parentNode, tagName, textContent, passes, textBefore,
                 textBuilt, styleBuilt, call, journal, pageIndex,
                 renderContainers, clicks, images, imageIndex, fetched>>

\* generatePDF(container, journal, options) up to its await: the two library
\* checks, then the call of window.html2canvas(container, ...)
generatePDF ==
  /\ pc = "generatePDF"
  /\ \E jspdf \in BOOLEAN, html2canvas \in BOOLEAN :
       IF ~jspdf
       THEN ExportThrows("jsPDF library not loaded")
       ELSE IF ~html2canvas
       THEN ExportThrows("html2canvas library not loaded")
       ELSE /\ pc' = "html2canvas"
            /\ UNCHANGED <<exportInProgress, pendingExports, notification>>
  /\ TreeUnchanged
  /\ UNCHANGED <<passes, call, journal, pageIndex, renderContainers, clicks,
                 images, imageIndex, fetched>>

\* the canvas arrives: generatePDF saves the file, exportJournalToPDF removes
\* the container, handleExportClick notifies and clears the flag
html2canvasResolves ==
  /\ pc = "html2canvas"
  /\ renderContainers' = renderContainers - 1
  /\ notification' = [type |-> "success", message |-> "exported"]
  /\ exportInProgress' = FALSE
  /\ pendingExports' = pendingExports - 1
  /\ pc' = "idle"
  /\ TreeUnchanged
  /\ UNCHANGED <<passes, call, journal, pageIndex, clicks, images, imageIndex,
                 fetched>>

\* rendering fails: the catch of generatePDF logs and rethrows
html2canvasRejects ==
  /\ pc = "html2canvas"
  /\ ExportThrows("html2canvas failed")
  /\ TreeUnchanged
  /\ UNCHANGED <<passes, call, journal, pageIndex, renderContainers, clicks,
                 images, imageIndex, fetched>>

InitExport ==
  /\ nodeType = <<"ELEMENT_NODE">>
  /\ parentNode = <<0>>
  /\ tagName = <<"DIV">>
  /\ textContent = << <<>> >>
  /\ style = <<NoStyle>>
  /\ pc = "idle"
  /\ passes = 0
  /\ textBefore = << <<>> >>
  /\ textBuilt = << <<>> >>
  /\ styleBefore = <<NoStyle>>
  /\ styleBuilt = <<NoStyle>>
  /\ elementsToInvert = <<>>
  /\ forcedBlack = {}
  /\ call = NoCall
  /\ NoExport

NextExport ==
  \/ handleExportClick
  \/ createPageElement
  \/ normalizeWhitespaceOfPage
  \/ createRenderContainer
  \/ processStylesForPDF
  \/ generatePDF
  \/ html2canvasResolves
  \/ html2canvasRejects

SpecExport == InitExport /\ [][NextExport]_vars

----------------------------------------------------------------------------
(* Properties of the export *)

\* the style properties a processStylesForPDF pass may write
WrittenProperties == {"color", "backgroundColor", "visibility", "opacity"}

\* C21: a step of processStylesForPDF (the whole pass, or one of its three
\* calls) leaves the set of nodes, their parents, their tag names and every
\* text content as they were; it changes the declared style of no node other
\* than an element, and of an element nothing but its color, backgroundColor,
\* visibility and opacity.
C21_StyleFrame ==
  [][(pc = "processStylesForPDF" \/ pc' \in {"inverted", "visible", "processed"}) =>
       /\ nodeType' = nodeType /\ parentNode' = parentNode
       /\ tagName' = tagName /\ textContent' = textContent
       /\ Len(style') = Len(style)
       /\ \A i \in Nodes :
            /\ nodeType[i] # "ELEMENT_NODE" => style'[i] = style[i]
            /\ DOMAIN style'[i] = DOMAIN style[i]
            /\ \A p \in DOMAIN style[i] \ WrittenProperties :
                 style'[i][p] = style[i][p]]_vars

\* a pass has returned that wrote the color and the backgroundColor of one
\* element and the visibility and the opacity of another, in a tree that holds
\* non-empty text leaves
C21_Witness ==
  /\ pc = "generatePDF"
  /\ \E e \in Nodes :
       /\ style[e].color # styleBefore[e].color
       /\ style[e].backgroundColor # styleBefore[e].backgroundColor
  /\ \E e \in Nodes :
       /\ style[e].visibility # styleBefore[e].visibility
       /\ style[e].opacity # styleBefore[e].opacity
  /\ \E t \in Nodes : nodeType[t] = "TEXT_NODE" /\ textContent[t] # <<>>

\* C22: totality.  Every call of normalizeWhitespace and every call of
\* processStylesForPDF returns to its caller: the step that runs
\* normalizeWhitespace on a page's content goes on with the next page, and
\* the step that runs processStylesForPDF on the render container goes on to
\* generatePDF, whatever styles the tree declares.
C22_NormalizersReturn ==
  [][/\ pc = "normalizeWhitespace" => pc' = "normalizeJournalContent"
     /\ pc = "processStylesForPDF" => pc' = "generatePDF"]_vars

\* the positions of exportJournalToPDF from the call of processStylesForPDF on
AfterNormalizeJournalContent == {"processStylesForPDF", "generatePDF", "html2canvas"}

\* the page elements under the 'pdf-content' element, once it is node 2
PageElements == {i \in Nodes : parentNode[i] = 2}

\* C23: pipeline order of exportJournalToPDF.  (1) When processStylesForPDF
\* is called every page of the journal has been created and its
\* normalizeWhitespace call has returned, and no whitespace step follows in
\* that run; (2) the tree processStylesForPDF is given is the normalized
\* content, node for node, under the new container; (3) the tree is handed to
\* html2canvas only from the position after processStylesForPDF has returned;
\* (4) while html2canvas is pending no step changes the tree.
C23_PipelineOrder ==
  [][/\ pc' \in AfterNormalizeJournalContent =>
          /\ pageIndex' = Len(journal')
          /\ Cardinality(PageElements') = Len(journal')
     /\ pc \in AfterNormalizeJournalContent =>
          /\ pc' \notin {"normalizeJournalContent", "normalizeWhitespace"}
          /\ textContent' = textContent
     /\ pc' = "processStylesForPDF" =>
          /\ pc = "normalizeJournalContent"
          /\ Len(nodeType') = Len(nodeType) + 1
          /\ \A i \in Nodes :
               /\ nodeType'[i + 1] = nodeType[i]
               /\ tagName'[i + 1] = tagName[i]
               /\ textContent'[i + 1] = textContent[i]
               /\ style'[i + 1] = style[i]
               /\ parentNode'[i + 1] = parentNode[i] + 1
     /\ pc' = "html2canvas" => pc \in {"generatePDF", "html2canvas"}
     /\ pc = "html2canvas" =>
          /\ nodeType' = nodeType /\ parentNode' = parentNode
          /\ tagName' = tagName /\ textContent' = textContent
          /\ style' = style]_vars

\* the tree of a journal of two pages is with html2canvas: whitespace
\* normalization has written a text leaf of the second page and contrast
\* normalization the style of an element of the first
C23_Witness ==
  /\ pc = "html2canvas"
  /\ Len(journal) = 2
  /\ \E t \in Nodes, e \in Nodes :
       /\ e < t
       /\ nodeType[t] = "TEXT_NODE" /\ textContent[t] # textBuilt[t]
       /\ nodeType[e] = "ELEMENT_NODE" /\ style[e] # styleBefore[e]
       /\ \E p \in PageElements : e < p /\ p < t

C26_NoRenderContainerRemains ==
  pc = "idle" => renderContainers = 0

----------------------------------------------------------------------------
(* The HTML exporter: extractJournalContent, convertImagesToBase64 and       *)
(* fetchImageAsBase64.  A src attribute is kept as a sequence of pieces: no  *)
(* piece when the attribute is missing or empty, a first piece "data:" when  *)
(* the value starts with 'data:'.                                            *)

\* img elements in the contents of the pages of one journal
MaxImages == 3

NoSrc == <<>>
DataUri(payload) == <<"data:", payload>>

\* img.getAttribute('src') of the images a page holds
SampleSrcs == {NoSrc, DataUri("AAAA"), <<"a.png">>}

\* number of img elements in the pages from page p on
RECURSIVE ImageCount(_, _)
ImageCount(pages, p) ==
  IF p > Len(pages) THEN 0 ELSE Len(pages[p]) + ImageCount(pages, p + 1)

\* what the network and the FileReader do with one request
SampleResponses ==
  {"fetch rejects", "HTTP 404", "blob rejects", "reader error", "ok"}

Null == <<"null">>

\* src.startsWith('data:')
StartsWithData(src) == Len(src) > 0 /\ src[1] = "data:"

\* !src || src.startsWith('data:')
IsSkipped(src) == src = NoSrc \/ StartsWithData(src)

\* fetchImageAsBase64(url) under a response: the value its promise is
\* fulfilled with, or that it is rejected.  A failed fetch, a non-OK status
\* and a failed blob() are caught and give null; the FileReader promise is
\* returned without await, so its rejection is the caller's
fetchImageAsBase64(url, response) ==
  IF response \in {"fetch rejects", "HTTP 404", "blob rejects"}
  THEN [rejected |-> FALSE, value |-> Null]
  ELSE IF response = "reader error"
  THEN [rejected |-> TRUE, value |-> Null]
  ELSE [rejected |-> FALSE, value |-> DataUri(url[1])]

\* a loop body that assigns whatever the helper returned
SrcAfter_NoNullCheck(src, result) ==
  IF result.rejected THEN src ELSE result.value

\* the try block of the loop body: if (base64) img.setAttribute('src', base64),
\* and the catch that keeps the original src
SrcAfter(src, result) ==
  IF result.rejected THEN src
  ELSE IF result.value # Null THEN result.value
  ELSE src

\* a skip test that lets data: URIs through to fetch
IsFetched_DataToo(src) == src # NoSrc

\* the loop body goes on to fetch
IsFetched(src) == ~IsSkipped(src)

\* the journal's author adds a page
appendPage ==
  /\ pc = "build"
  /\ Len(journal) < MaxPages
  /\ journal' = Append(journal, <<>>)
  /\ UNCHANGED <<nodeType, parentNode, tagName, textContent, style, pc, passes,
                 textBefore, textBuilt, styleBefore, styleBuilt, elementsToInvert,
                 forcedBlack, call, exportInProgress, pendingExports, pageIndex,
                 renderContainers, notification, clicks, images, imageIndex,
                 fetched>>

\* the journal's author adds an img element to the content of the last page
appendImage ==
  /\ pc = "build"
  /\ Len(journal) > 0
  /\ ImageCount(journal, 1) < MaxImages
  /\ \E src \in SampleSrcs :
       journal' = [journal EXCEPT ![Len(journal)] = Append(@, src)]
  /\ UNCHANGED <<nodeType, parentNode, tagName, textContent, style, pc, passes,
                 textBefore, textBuilt, styleBefore, styleBuilt, elementsToInvert,
                 forcedBlack, call, exportInProgress, pendingExports, pageIndex,
                 renderContainers, notification, clicks, images, imageIndex,
                 fetched>>

\* exportJournalToPDF(journal) of the HTML exporter calls
\* extractJournalContent(journal), which takes the pages and enters its loop
extractJournalContent ==
  /\ pc = "build"
  /\ images' = journal
  /\ pendingExports' = pendingExports + 1
  /\ pc' = IF Len(journal) = 0 THEN "createStandaloneHTML"
           ELSE "convertImagesToBase64"
  /\ UNCHANGED <<nodeType, parentNode, tagName, textContent, style, passes,
                 textBefore, textBuilt, styleBefore, styleBuilt, elementsToInvert,
                 forcedBlack, call, exportInProgress, journal, pageIndex,
                 renderContainers, notification, clicks, imageIndex, fetched>>

\* one iteration of 'for (const img of images)' in convertImagesToBase64
convertImage ==
  /\ pc = "convertImagesToBase64"
  /\ imageIndex < Len(images[pageIndex + 1])
  /\ LET p == pageIndex + 1
         k == imageIndex + 1
         src == images[p][k]
     IN IF IsFetched(src)
        THEN \E response \in SampleResponses :
               LET result == fetchImageAsBase64(src, response)
               IN /\ fetched' = Append(fetched, src)
                  /\ call' = [fn |-> "fetchImageAsBase64", args |-> <<src, response>>,
                              result |-> result]
                  /\ images' = [images EXCEPT ![p][k] = SrcAfter(src, result)]
        ELSE UNCHANGED <<fetched, call, images>>
  /\ imageIndex' = imageIndex + 1
  /\ UNCHANGED <<nodeType, parentNode, tagName, textContent, style, pc, passes,
                 textBefore, textBuilt, styleBefore, styleBuilt, elementsToInvert,
                 forcedBlack, exportInProgress, pendingExports, journal, pageIndex,
                 renderContainers, notification, clicks>>

\* convertImagesToBase64 returns container.innerHTML and the loop of
\* extractJournalContent goes on with the next page
convertImagesToBase64 ==
  /\ pc = "convertImagesToBase64"
  /\ imageIndex = Len(images[pageIndex + 1])
  /\ pageIndex' = pageIndex + 1
  /\ imageIndex' = 0
  /\ pc' = IF pageIndex + 1 < Len(journal) THEN "convertImagesToBase64"
           ELSE "createStandaloneHTML"
  /\ UNCHANGED <<nodeType, parentNode, tagName, textContent, style, passes,
                 textBefore, textBuilt, styleBefore, styleBuilt, elementsToInvert,
                 forcedBlack, call, exportInProgress, pendingExports, journal,
                 renderContainers, notification, clicks, images, fetched>>

\* extractJournalContent has returned: createStandaloneHTML and downloadHTML
downloadHTML ==
  /\ pc = "createStandaloneHTML"
  /\ pc' = "completed"
  /\ pendingExports' = pendingExports - 1
  /\ UNCHANGED <<nodeType, parentNode, tagName, textContent, style, passes,
                 textBefore, textBuilt, styleBefore, styleBuilt, elementsToInvert,
                 forcedBlack, call, exportInProgress, journal, pageIndex,
                 renderContainers, notification, clicks, images, imageIndex,
                 fetched>>

\* a journal without pages, before the export is called
InitImages ==
  /\ nodeType = <<"ELEMENT_NODE">>
  /\ parentNode = <<0>>
  /\ tagName = <<"DIV">>
  /\ textContent = << <<>> >>
  /\ style = <<NoStyle>>
  /\ pc = "build"
  /\ passes = 0
  /\ textBefore = << <<>> >>
  /\ textBuilt = << <<>> >>
  /\ styleBefore = <<NoStyle>>
  /\ styleBuilt = <<NoStyle>>
  /\ elementsToInvert = <<>>
  /\ forcedBlack = {}
  /\ call = NoCall
  /\ NoExport

NextImages ==
  \/ appendPage
  \/ appendImage
  \/ extractJournalContent
  \/ convertImage
  \/ convertImagesToBase64
  \/ downloadHTML

SpecImages == InitImages /\ [][NextImages]_vars

\* the images of the journal that convertImagesToBase64 has passed
Passed(p, k) == p <= pageIndex \/ (p = pageIndex + 1 /\ k <= imageIndex)

\* the img elements of the journal: page and place in the page
ImagePositions == {<<p, k>> \in (1..MaxPages) \X (1..MaxImages) :
                     p <= Len(journal) /\ k <= Len(journal[p])}

\* C24: asset resolution failure.  An image without a src, or whose src starts
\* with 'data:', is passed without a fetch and keeps its src.  When the fetch
\* or the conversion of an image fails (rejected fetch, non-OK status, failed
\* blob, reader error) the image keeps its original src and the loop goes on
\* with the next image; no step changes the src of any other image.  The
\* export never fails for an image: it goes on until every page is done, and
\* when it completes every image with a fetchable src has been requested
\* once, in document order, and every image has its original src or the data
\* URI fetched for it.
C24_ImageFailureKeepsSrc ==
  /\ [](/\ pc \in {"build", "convertImagesToBase64", "createStandaloneHTML",
                  "completed"}
        /\ pc # "completed" => ENABLED NextImages
        /\ pc # "build" => \A pos \in ImagePositions :
             LET original == journal[pos[1]][pos[2]]
                 src == images[pos[1]][pos[2]]
             IN /\ IsSkipped(original) => src = original
                /\ src = original \/ (~IsSkipped(original) /\ src = DataUri(original[1]))
                /\ ~Passed(pos[1], pos[2]) => src = original
        /\ pc = "completed" =>
             /\ pageIndex = Len(journal)
             /\ Len(fetched) =
                  Cardinality({pos \in ImagePositions :
                                 ~IsSkipped(journal[pos[1]][pos[2]])}))
  /\ [][imageIndex' = imageIndex + 1 =>
          LET p == pageIndex + 1
              k == imageIndex + 1
          IN /\ \A pos \in ImagePositions :
                  pos # <<p, k>> => images'[pos[1]][pos[2]] = images[pos[1]][pos[2]]
             /\ IsSkipped(images[p][k]) => fetched' = fetched /\ images' = images
             /\ ~IsSkipped(images[p][k]) =>
                  /\ fetched' = Append(fetched, images[p][k])
                  /\ call'.args[2] # "ok" => images' = images
                  /\ call'.args[2] = "ok" =>
                       images'[p][k] = DataUri(images[p][k][1])
             /\ pc' = "convertImagesToBase64"]_vars

\* a completed export of a journal in which the first image was requested,
\* failed and kept its src, a later image on another page was fetched
\* and converted, and an image with a data: src was passed untouched
C24_Witness ==
  /\ pc = "completed"
  /\ Len(journal) = 2
  /\ Len(fetched) = 2
  /\ Len(journal[1]) > 0 /\ images[1][1] = <<"a.png">>
  /\ \E k \in 1..Len(images[2]) :
       journal[2][k] = <<"a.png">> /\ images[2][k] = DataUri("a.png")
  /\ \E pos \in ImagePositions :
       StartsWithData(journal[pos[1]][pos[2]])
       /\ images[pos[1]][pos[2]] = journal[pos[1]][pos[2]]
  /\ call.args[2] = "ok"

====
